---- MODULE Spec2Model ----
(***************************************************************************)
(* State-machine model of scripts/add-icon-padding.py: the command-line    *)
(* entry point, the function add_transparent_padding and the file system   *)
(* it reads and writes.                                                    *)
(*                                                                         *)
(* Images carry their size and their alpha channel.  An alpha value is 0   *)
(* (transparent), 255 (opaque) or Unknown: a value of 0..255 that the      *)
(* resampling filter or the mask blend fixes and the model does not track. *)
(* A content_percent is held in hundredths (0.88 is 88).                   *)
(***************************************************************************)
EXTENDS Integers, Sequences, FiniteSets, TLC

\* ------------------------------------------------------------------ bounds
\* Largest width and height of an image in the initial file system.
MaxDim == 3

\* ------------------------------------------------------------ alpha values
Transparent == 0
Opaque == 255
Unknown == Opaque + 1

\* Hundredths per unit of content_percent.
PercentDen == 100

\* Half-width of the Lanczos window, in source pixels at scale 1.
LanczosSupport == 3

Min(a, b) == IF a <= b THEN a ELSE b
Max(a, b) == IF a >= b THEN a ELSE b

\* Python's // on integers: floor division (d > 0).
FloorDiv(n, d) == n \div d

\* Python's int() on a float, C's (int) cast: truncation toward zero (d > 0).
TruncDiv(n, d) == IF n >= 0 THEN n \div d ELSE -((-n) \div d)

\* ------------------------------------------------------------------ images
Pixels(w, h) == (0 .. (w - 1)) \X (0 .. (h - 1))

MkImage(w, h, f(_, _)) == [w |-> w, h |-> h, a |-> [p \in Pixels(w, h) |-> f(p[1], p[2])]]

\* The value of an image local that has not been assigned.
NoImage == [w |-> 0, h |-> 0, a |-> [p \in {} |-> 0]]

OpaqueAt(x, y) == Opaque
CornerAt(x, y) == IF x = 0 /\ y = 0 THEN Transparent ELSE Opaque

\* The images a PNG file of the initial file system may hold, as RGBA.
SourceImages ==
    { MkImage(w, h, OpaqueAt) : w \in 1 .. MaxDim, h \in 1 .. MaxDim }
    \cup { MkImage(w, h, CornerAt) : w \in 1 .. MaxDim, h \in 1 .. MaxDim }

\* ------------------------------------------------------------- file system
Missing == [kind |-> "missing", img |-> NoImage]
Garbage == [kind |-> "garbage", img |-> NoImage]
Png(img) == [kind |-> "png", img |-> img]

\* "nodir/c" lies in a directory that does not exist: it can be neither
\* read nor created.
Paths == {"a", "b", "nodir/c"}
Unwritable == {"nodir/c"}

\* -------------------------------------------------------------- arguments
ProgName == "add-icon-padding.py"

\* The texts given as content_percent.
PercentArgs == {"0.5", "0.88", "1.0", "1.5", "0", "-0.5", "nan", "abc"}

\* float(s): kind "num" with the value in hundredths, "nan", or "err" when
\* float() raises ValueError.
Float(s) ==
    CASE s = "0.5"  -> [kind |-> "num", v |-> 50]
      [] s = "0.88" -> [kind |-> "num", v |-> 88]
      [] s = "1.0"  -> [kind |-> "num", v |-> 100]
      [] s = "1.5"  -> [kind |-> "num", v |-> 150]
      [] s = "0"    -> [kind |-> "num", v |-> 0]
      [] s = "-0.5" -> [kind |-> "num", v |-> -50]
      [] s = "nan"  -> [kind |-> "nan", v |-> 0]
      [] OTHER      -> [kind |-> "err", v |-> 0]

NoFloat == [kind |-> "unset", v |-> 0]

\* The default of the parameter content_percent (the literal 0.88).
DefaultParam == Float("0.88")

\* The default the entry point passes when sys.argv has no fourth element.
DefaultMainHalf == Float("0.5")
DefaultMain == Float("0.88")

\* The entry point prints the usage text when len(sys.argv) is below this.
MinArgcWithPercent == 3 + 1
MinArgc == 3

\* ---------------------------------------------------------------- geometry
\* new_size = int(min(width, height) * content_percent).  For every text of
\* PercentArgs and every side up to MaxDim + 1 the float product truncates to
\* the same integer as the exact product of the side and the hundredths.
NewSizeOfWidth(width, height, pct) == TruncDiv(width * pct, PercentDen)
NewSize(width, height, pct) == TruncDiv(Min(width, height) * pct, PercentDen)

\* offset = (width - new_size) // 2
Offset(width, new_size) == FloorDiv(width - new_size, 2)

\* The position (x, y) handed to paste: the same offset on both axes.
PastePos(offset) == <<offset, offset>>

\* The size handed to Image.new for the canvas.
CanvasSizeOfContent(width, height) == <<Min(width, height), Min(width, height)>>
CanvasSize(width, height) == <<width, height>>

\* The alpha of the colour (0, 0, 0, 0) that fills the new canvas.
CanvasFillOpaque == Opaque
CanvasFill == Transparent

\* ------------------------------------------------------------------ resize
\* Image.resize raises ValueError("height and width must be > 0").
ResizeRaisesNegativeOnly(xsize, ysize) == xsize < 0 \/ ysize < 0
ResizeRaises(xsize, ysize) == xsize < 1 \/ ysize < 1

\* The source pixels along one axis that output pixel xx is computed from:
\* the filter window [center - support, center + support) clipped to the
\* axis, with center = (xx + 0.5) * scale and support = 3 * max(scale, 1);
\* an axis whose size does not change is not resampled.
Window(inSize, outSize, xx) ==
    IF inSize = outSize THEN {xx}
    ELSE LET c2   == (2 * xx + 1) * inSize
             s2   == 2 * LanczosSupport * Max(inSize, outSize)
             lo   == Max(0, TruncDiv(c2 - s2 + outSize, 2 * outSize))
             hi   == Min(inSize, TruncDiv(c2 + s2 + outSize, 2 * outSize))
         IN  lo .. (hi - 1)

\* img.resize((xsize, ysize), Image.LANCZOS), for xsize, ysize >= 1: a
\* weighted mean, with weights summing to one, of the window's pixels.  A
\* window of one known value keeps it; any other window gives a value the
\* model does not track.
Resize(img, xsize, ysize) ==
    LET val(x, y) ==
            LET vs == { img.a[<<i, j>>] : i \in Window(img.w, xsize, x),
                                          j \in Window(img.h, ysize, y) }
            IN  IF vs = {Transparent} THEN Transparent
                ELSE IF vs = {Opaque} THEN Opaque
                ELSE Unknown
    IN  MkImage(xsize, ysize, val)

\* ------------------------------------------------------------------- paste
\* One alpha value of the destination after a masked paste.
Blend(dst, src, mask) ==
    IF mask = Transparent THEN dst
    ELSE IF mask = Opaque THEN src
    ELSE Unknown

\* Image.new('RGBA', size, (0, 0, 0, 0))
NewCanvas(size) == MkImage(size[1], size[2], LAMBDA x, y : CanvasFill)

\* canvas.paste(src, pos, src): src is written, through its own alpha as the
\* mask, into the box of src's size at pos, clipped to the canvas.
Paste(canvas, src, pos) ==
    [canvas EXCEPT !.a =
        [p \in Pixels(canvas.w, canvas.h) |->
            LET sx == p[1] - pos[1]
                sy == p[2] - pos[2]
            IN  IF sx >= 0 /\ sx < src.w /\ sy >= 0 /\ sy < src.h
                THEN Blend(canvas.a[p], src.a[<<sx, sy>>], src.a[<<sx, sy>>])
                ELSE canvas.a[p]]]

\* ------------------------------------------------------------ state machine
VARIABLES
    fs,               \* the file system: path -> file
    mode,             \* "main": run as a script; "call": the function is called
    args,             \* the positional arguments of the run
    pc,               \* the statement the run is at
    error,            \* the exception raised by the run, "none" if none
    exit_code,        \* the exit status of the process, -1 while it runs
    stdout,           \* what the run printed
    input_file, output_file, content,            \* locals of the entry point
    input_path, output_path, content_percent,    \* parameters of the function
    img, width, height, new_size, img_resized, result, offset,
    fs0,              \* history: the file system when the run started
    prev              \* history: the run before this one

locals == <<input_file, output_file, content, input_path, output_path,
            content_percent, img, width, height, new_size, img_resized,
            result, offset>>

vars == <<fs, mode, args, pc, error, exit_code, stdout, locals, fs0, prev>>

\* sys.argv: the program's name, then the positional arguments.
sys_argv == <<ProgName>> \o args

Line(tag, x, y, path) == [tag |-> tag, x |-> x, y |-> y, path |-> path]

\* The argument lists of a run of the script: any number of arguments.
MainArgs ==
    {<<>>} \cup { <<i>> : i \in Paths }
    \cup { <<i, o>> : i \in Paths, o \in Paths }
    \cup { <<i, o, c>> : i \in Paths, o \in Paths, c \in PercentArgs }
    \cup { <<i, o, "0.88", "extra">> : i \in Paths, o \in Paths }

\* The argument lists of a call of the function: two paths and, optionally,
\* a float.
CallArgs ==
    { <<i, o>> : i \in Paths, o \in Paths }
    \cup { <<i, o, c>> : i \in Paths, o \in Paths, c \in {"0.88", "0.5"} }

Invocations ==
    { [mode |-> "main", args |-> a] : a \in MainArgs }
    \cup { [mode |-> "call", args |-> a] : a \in CallArgs }

NoRun ==
    [valid |-> FALSE, mode |-> "main", args |-> <<>>, error |-> "none",
     exit_code |-> 0, img |-> NoImage, new_size |-> 0, offset |-> 0,
     content_percent |-> NoFloat, inp |-> Missing, out |-> Missing,
     stdout |-> <<>>]

\* A process starts: nothing is assigned yet.
Fresh ==
    /\ error = "none" /\ exit_code = -1 /\ stdout = <<>>
    /\ input_file = "" /\ output_file = "" /\ content = NoFloat
    /\ input_path = "" /\ output_path = "" /\ content_percent = NoFloat
    /\ img = NoImage /\ width = 0 /\ height = 0 /\ new_size = 0
    /\ img_resized = NoImage /\ result = NoImage /\ offset = 0

FreshNext ==
    /\ error' = "none" /\ exit_code' = -1 /\ stdout' = <<>>
    /\ input_file' = "" /\ output_file' = "" /\ content' = NoFloat
    /\ input_path' = "" /\ output_path' = "" /\ content_percent' = NoFloat
    /\ img' = NoImage /\ width' = 0 /\ height' = 0 /\ new_size' = 0
    /\ img_resized' = NoImage /\ result' = NoImage /\ offset' = 0

Init ==
    /\ fs \in { f \in [Paths -> {Missing, Garbage} \cup { Png(i) : i \in SourceImages }] :
                    /\ f["nodir/c"] = Missing
                    /\ f["a"] # Missing
                    /\ f["b"] \in {Missing, Png(MkImage(2, 2, OpaqueAt))} }
    /\ \E inv \in Invocations : mode = inv.mode /\ args = inv.args
    /\ pc = IF mode = "main" THEN "main" ELSE "call"
    /\ Fresh
    /\ fs0 = fs
    /\ prev = NoRun

\* An exception nothing catches ends the process: the statement after the
\* one that raised is not run.
Swallowed(next) == next
Uncaught(next) == "exit"

Raise(exc, next) ==
    /\ error' = exc
    /\ pc' = Uncaught(next)
    /\ exit_code' = IF pc' = "exit" THEN 1 ELSE exit_code

\* if len(sys.argv) < 3: print the usage text and sys.exit(1)
Usage ==
    /\ pc = "main"
    /\ Len(sys_argv) < MinArgc
    /\ stdout' = stdout \o <<Line("usage", 0, 0, ""), Line("example", 0, 0, "")>>
    /\ exit_code' = 1
    /\ pc' = "exit"
    /\ UNCHANGED <<fs, mode, args, error, locals, fs0, prev>>

\* input_file = sys.argv[1]; output_file = sys.argv[2];
\* content = float(sys.argv[3]) if len(sys.argv) > 3 else 0.88
ParseArgs ==
    /\ pc = "main"
    /\ ~(Len(sys_argv) < MinArgc)
    /\ LET f == IF Len(sys_argv) > 3 THEN Float(sys_argv[4]) ELSE DefaultMain
       IN  /\ f.kind # "err"
           /\ content' = f
    /\ input_file' = sys_argv[2]
    /\ output_file' = sys_argv[3]
    /\ pc' = "invoke"
    /\ UNCHANGED <<fs, mode, args, error, exit_code, stdout, input_path,
                   output_path, content_percent, img, width, height, new_size,
                   img_resized, result, offset, fs0, prev>>

\* float(sys.argv[3]) raises ValueError.
ParseArgsFails ==
    /\ pc = "main"
    /\ ~(Len(sys_argv) < MinArgc)
    /\ Len(sys_argv) > 3 /\ Float(sys_argv[4]).kind = "err"
    /\ Raise("ValueError", "invoke")
    /\ UNCHANGED <<fs, mode, args, stdout, locals, fs0, prev>>

\* add_transparent_padding(input_file, output_file, content)
Invoke ==
    /\ pc = "invoke"
    /\ input_path' = input_file
    /\ output_path' = output_file
    /\ content_percent' = content
    /\ pc' = "open"
    /\ UNCHANGED <<fs, mode, args, error, exit_code, stdout, input_file,
                   output_file, content, img, width, height, new_size,
                   img_resized, result, offset, fs0, prev>>

\* A caller's add_transparent_padding(input_path, output_path[, content_percent])
Call ==
    /\ pc = "call"
    /\ input_path' = args[1]
    /\ output_path' = args[2]
    /\ content_percent' = IF Len(args) > 2 THEN Float(args[3]) ELSE DefaultParam
    /\ pc' = "open"
    /\ UNCHANGED <<fs, mode, args, error, exit_code, stdout, input_file,
                   output_file, content, img, width, height, new_size,
                   img_resized, result, offset, fs0, prev>>

\* The file Image.open and Image.save use.
OpenPathIsOutput(inp, outp) == outp
OpenPath(inp, outp) == inp

\* img = Image.open(input_path).convert("RGBA"); width, height = img.size;
\* print the original size
Open ==
    /\ pc = "open"
    /\ fs[OpenPath(input_path, output_path)].kind = "png"
    /\ img' = fs[OpenPath(input_path, output_path)].img
    /\ width' = img'.w
    /\ height' = img'.h
    /\ stdout' = Append(stdout, Line("original", width', height', ""))
    /\ pc' = "size"
    /\ UNCHANGED <<fs, mode, args, error, exit_code, input_file, output_file,
                   content, input_path, output_path, content_percent, new_size,
                   img_resized, result, offset, fs0, prev>>

\* Image.open raises: no such file, or a file that is no image.
OpenFails ==
    /\ pc = "open"
    /\ fs[OpenPath(input_path, output_path)].kind # "png"
    /\ Raise(IF fs[OpenPath(input_path, output_path)].kind = "missing"
             THEN "FileNotFoundError" ELSE "UnidentifiedImageError", "size")
    /\ UNCHANGED <<fs, mode, args, stdout, locals, fs0, prev>>

\* new_size = int(min(width, height) * content_percent)
ComputeSize ==
    /\ pc = "size"
    /\ content_percent.kind = "num"
    /\ new_size' = NewSize(width, height, content_percent.v)
    /\ pc' = "resize"
    /\ UNCHANGED <<fs, mode, args, error, exit_code, stdout, input_file,
                   output_file, content, input_path, output_path,
                   content_percent, img, width, height, img_resized, result,
                   offset, fs0, prev>>

\* int() of a NaN raises ValueError.
ComputeSizeFails ==
    /\ pc = "size"
    /\ content_percent.kind # "num"
    /\ Raise("ValueError", "resize")
    /\ UNCHANGED <<fs, mode, args, stdout, locals, fs0, prev>>

\* img_resized = img.resize((new_size, new_size), Image.LANCZOS);
\* print the content size and int(content_percent * 100)
DoResize ==
    /\ pc = "resize"
    /\ ~ResizeRaises(new_size, new_size)
    /\ img_resized' = Resize(img, new_size, new_size)
    /\ stdout' = Append(stdout, Line("content", new_size,
                            TruncDiv(content_percent.v * 100, PercentDen), ""))
    /\ pc' = "canvas"
    /\ UNCHANGED <<fs, mode, args, error, exit_code, input_file, output_file,
                   content, input_path, output_path, content_percent, img,
                   width, height, new_size, result, offset, fs0, prev>>

ResizeFails ==
    /\ pc = "resize"
    /\ ResizeRaises(new_size, new_size)
    /\ Raise("ValueError", "canvas")
    /\ UNCHANGED <<fs, mode, args, stdout, locals, fs0, prev>>

\* result = Image.new('RGBA', (width, height), (0, 0, 0, 0))
Canvas ==
    /\ pc = "canvas"
    /\ result' = NewCanvas(CanvasSize(width, height))
    /\ pc' = "paste"
    /\ UNCHANGED <<fs, mode, args, error, exit_code, stdout, input_file,
                   output_file, content, input_path, output_path,
                   content_percent, img, width, height, new_size, img_resized,
                   offset, fs0, prev>>

\* offset = (width - new_size) // 2;
\* result.paste(img_resized, (offset, offset), img_resized)
DoPaste ==
    /\ pc = "paste"
    /\ offset' = Offset(width, new_size)
    /\ result' = Paste(result, img_resized, PastePos(offset'))
    /\ pc' = "save"
    /\ UNCHANGED <<fs, mode, args, error, exit_code, stdout, input_file,
                   output_file, content, input_path, output_path,
                   content_percent, img, width, height, new_size, img_resized,
                   fs0, prev>>

\* result.save(output_path, 'PNG'); the three closing prints; the function
\* returns and the process ends.
Save ==
    /\ pc = "save"
    /\ output_path \notin Unwritable
    /\ fs' = [fs EXCEPT ![output_path] = Png(result)]
    /\ stdout' = stdout \o <<Line("saved", 0, 0, output_path),
                             Line("margins", offset, 0, ""),
                             Line("keep", 0, 0, "")>>
    /\ exit_code' = 0
    /\ pc' = "exit"
    /\ UNCHANGED <<mode, args, error, locals, fs0, prev>>

\* result.save raises: the file cannot be created.
SaveFails ==
    /\ pc = "save"
    /\ output_path \in Unwritable
    /\ Raise("FileNotFoundError", "exit")
    /\ UNCHANGED <<fs, mode, args, stdout, locals, fs0, prev>>

\* The run as the next one sees it.
Summary ==
    [valid |-> TRUE, mode |-> mode, args |-> args, error |-> error,
     exit_code |-> exit_code, img |-> img, new_size |-> new_size,
     offset |-> offset, content_percent |-> content_percent,
     inp |-> IF Len(args) >= 2 THEN fs0[args[1]] ELSE Missing,
     out |-> IF Len(args) >= 2 THEN fs[args[2]] ELSE Missing,
     stdout |-> stdout]

Prefix2(a) == IF Len(a) <= 2 THEN a ELSE SubSeq(a, 1, 2)

\* The process has ended; the program is run again on the same paths, as a
\* script or as a call: with the same arguments, or with content_percent
\* left out or given as 0.88.
Rerun ==
    /\ pc = "exit"
    /\ \E inv \in Invocations :
          /\ Prefix2(inv.args) = Prefix2(args)
          /\ (inv.args = args \/ Len(inv.args) = 2
                \/ (Len(inv.args) = 3 /\ inv.args[3] = "0.88"))
          /\ mode' = inv.mode
          /\ args' = inv.args
    /\ prev' = Summary
    /\ fs0' = fs
    /\ pc' = IF mode' = "main" THEN "main" ELSE "call"
    /\ FreshNext
    /\ UNCHANGED fs

Next ==
    \/ Usage \/ ParseArgs \/ ParseArgsFails \/ Invoke \/ Call
    \/ Open \/ OpenFails \/ ComputeSize \/ ComputeSizeFails
    \/ DoResize \/ ResizeFails \/ Canvas \/ DoPaste \/ Save \/ SaveFails
    \/ Rerun

Spec == Init /\ [][Next]_vars

\* ================================================================ properties
Abs(n) == IF n >= 0 THEN n ELSE -n

\* add_transparent_padding has completed: the process ended with status 0.
Completed == pc = "exit" /\ exit_code = 0

\* The run is past the statement that assigns new_size.
SizeAssigned == img # NoImage /\ content_percent.kind = "num" /\ pc # "size"

\* The last value printed on a line of stdout with the given tag.
Printed(tag) ==
    LET is == { i \in 1 .. Len(stdout) : stdout[i].tag = tag }
    IN  stdout[CHOOSE i \in is : \A j \in is : j <= i].x

HasLine(tag) == \E i \in 1 .. Len(stdout) : stdout[i].tag = tag

\* The transparent margins left around the pasted square on the canvas.
LeftMargin == offset
TopMargin == offset
RightMargin == width - offset - new_size
BottomMargin == height - offset - new_size

\* C1: whenever add_transparent_padding completes, the image written to
\* output_path has the width and the height of the input image, square or
\* not, whatever the content_percent.
C1_DimensionPreservation ==
    Completed =>
        /\ fs[output_path].kind = "png"
        /\ fs[output_path].img.w = fs0[input_path].img.w
        /\ fs[output_path].img.h = fs0[input_path].img.h

C1_Witness ==
    /\ Completed
    /\ fs0[input_path].img.w # fs0[input_path].img.h
    /\ new_size # fs0[input_path].img.w
    /\ fs[output_path].img.w = fs0[input_path].img.w

\* C2: after a successful run every output pixel outside the square
\* [off, off + n) x [off, off + n), with n = floor(min(w, h) * content_percent)
\* and off = floor((w - n) / 2), has alpha 0, whatever the source pixels.
C2_MarginTransparent ==
    Completed =>
        LET out == fs[output_path].img
            n   == FloorDiv(Min(out.w, out.h) * content_percent.v, PercentDen)
            off == FloorDiv(out.w - n, 2)
            inside(p) == /\ p[1] >= off /\ p[1] < off + n
                         /\ p[2] >= off /\ p[2] < off + n
        IN  \A p \in Pixels(out.w, out.h) : ~inside(p) => out.a[p] = 0

C2_Witness ==
    /\ Completed
    /\ LET out == fs[output_path].img
       IN  /\ \E p \in Pixels(out.w, out.h) : out.a[p] = Opaque
           /\ \E p \in Pixels(out.w, out.h) :
                 /\ (p[1] < offset \/ p[1] >= offset + new_size)
                 /\ out.a[p] = 0
                 /\ img.a[p] = Opaque

\* C3: for every input, width # height included, and every content_percent
\* in (0, 1], the left and right margins differ by at most one pixel, the top
\* and bottom margins differ by at most one pixel, and the pasted square
\* lies inside the canvas.
C3_Centered ==
    (Completed /\ content_percent.v > 0 /\ content_percent.v <= PercentDen) =>
        /\ Abs(LeftMargin - RightMargin) <= 1
        /\ Abs(TopMargin - BottomMargin) <= 1
        /\ offset >= 0
        /\ offset + new_size <= width
        /\ offset + new_size <= height

\* C4, as claimed: the computed side is floor(min(width, height) *
\* content_percent) for every content_percent, negative ones included.
C4_NewSizeIsFloor ==
    SizeAssigned =>
        new_size = FloorDiv(Min(width, height) * content_percent.v, PercentDen)

\* C4, amended: the computed side is floor(min(width, height) *
\* content_percent) when content_percent >= 0 and the ceiling of the product
\* (truncation toward zero) when content_percent < 0; 1024 and 0.88 give 901.
C4_NewSizeTruncates ==
    /\ NewSize(1024, 1024, Float("0.88").v) = 901
    /\ SizeAssigned =>
          LET x == Min(width, height) * content_percent.v
          IN  new_size = IF content_percent.v >= 0
                         THEN FloorDiv(x, PercentDen)
                         ELSE -FloorDiv(-x, PercentDen)

C4_Witness ==
    /\ SizeAssigned
    /\ content_percent.v < 0
    /\ new_size = -1
    /\ FloorDiv(Min(width, height) * content_percent.v, PercentDen) = -2

\* C5: a run of the script with zero or one positional argument prints the
\* usage text and exits non-zero before any image operation, so no file is
\* created or modified; with two or more positional arguments the usage text
\* is never printed.
C5_UsageError ==
    mode = "main" =>
        /\ Len(args) < 2 =>
              /\ pc \in {"main", "exit"}
              /\ fs = fs0
              /\ img = NoImage /\ img_resized = NoImage /\ result = NoImage
              /\ pc = "exit" =>
                    /\ exit_code # 0
                    /\ HasLine("usage")
                    /\ \A i \in 1 .. Len(stdout) : stdout[i].tag \in {"usage", "example"}
        /\ Len(args) >= 2 => ~HasLine("usage")

C5_Witness ==
    /\ mode = "main" /\ Len(args) = 1 /\ pc = "exit"
    /\ HasLine("usage") /\ exit_code = 1
    /\ fs[args[1]].kind = "png"

\* C6: output_path is written only by the last step, after load, resize and
\* compose have succeeded; a run in which a step fails ends there, with no
\* file created or modified, and nothing catches or retries the failure.
C6_NoPartialOutput ==
    [][ /\ fs' # fs =>
              /\ pc = "save" /\ pc' = "exit"
              /\ error = "none" /\ error' = "none"
              /\ img # NoImage /\ img_resized # NoImage
              /\ result = Paste(NewCanvas(<<img.w, img.h>>), img_resized,
                                <<offset, offset>>)
              /\ \A q \in Paths : q # output_path => fs'[q] = fs[q]
              /\ fs'[output_path] = Png(result)
        /\ error' # "none" =>
              /\ pc' = "exit"
              /\ exit_code' # 0
              /\ fs' = fs0'
      ]_vars

C6_Witness ==
    /\ pc = "exit"
    /\ error = "ValueError"
    /\ img # NoImage
    /\ input_path # output_path
    /\ fs[output_path].kind = "png"
    /\ fs = fs0

\* Two runs in sequence, both successful, with identical arguments.
SameRunTwice ==
    /\ prev.valid /\ prev.exit_code = 0
    /\ Completed
    /\ prev.mode = mode /\ prev.args = args

\* C7, as claimed: two runs in sequence with identical input_path,
\* output_path and content_percent leave identical images at output_path,
\* for every choice of paths, input_path = output_path included.
C7_IdempotentAnyPaths ==
    SameRunTwice => fs[output_path] = prev.out

\* C7, amended: two runs in sequence with identical input_path, output_path
\* and content_percent leave identical images at output_path, provided
\* output_path is not the file the run reads.
C7_IdempotentDistinctPaths ==
    (SameRunTwice /\ input_path # output_path) => fs[output_path] = prev.out

C7_Witness ==
    /\ SameRunTwice
    /\ input_path # output_path
    /\ new_size < width
    /\ \E p \in Pixels(width, height) : fs[output_path].img.a[p] = Unknown

\* One of two runs leaves content_percent out and the other passes 0.88.
OmittedAndExplicit(a1, a2) ==
    /\ Len(a1) = 2
    /\ Len(a2) >= 3 /\ a2[3] = "0.88"

\* C8: a run that omits content_percent (two positional arguments, or a call
\* without the third argument) computes the same new_size and offset and
\* writes the same output as a run on the same input that passes 0.88.  (The
\* two runs are taken in sequence, in either order, on the same paths, with
\* the same file at input_path when each starts.)
C8_DefaultParameter ==
    ( /\ prev.valid
      /\ pc = "exit"
      /\ OmittedAndExplicit(prev.args, args) \/ OmittedAndExplicit(args, prev.args)
      /\ fs0[args[1]] = prev.inp ) =>
        /\ content_percent = prev.content_percent
        /\ new_size = prev.new_size
        /\ offset = prev.offset
        /\ error = prev.error
        /\ exit_code = prev.exit_code
        /\ fs[args[2]] = prev.out

C8_Witness ==
    /\ prev.valid /\ prev.exit_code = 0 /\ Completed
    /\ Len(prev.args) = 2 /\ prev.mode = "main"
    /\ Len(args) = 3 /\ args[3] = "0.88" /\ mode = "call"
    /\ args[1] # args[2]
    /\ new_size >= 2
    /\ fs[args[2]] = prev.out

\* C9: whenever new_size <= 0 the resize step fails with an error that ends
\* the run; the run never reaches the save step and output_path is not
\* written.
C9_NonPositiveSizeFails ==
    (SizeAssigned /\ new_size <= 0) =>
        /\ pc \in {"resize", "exit"}
        /\ img_resized = NoImage /\ result = NoImage
        /\ fs = fs0
        /\ pc = "exit" => (error = "ValueError" /\ exit_code # 0)

C9_Witness ==
    /\ SizeAssigned
    /\ new_size = 0 /\ content_percent.v > 0
    /\ pc = "exit" /\ error = "ValueError"
    /\ fs[output_path].kind = "png"

\* C10: on every successful run the margin printed as "{offset}px on each
\* side" is the width of the transparent margin on each of the four sides:
\* left, top, right (width - offset - new_size) and bottom
\* (height - offset - new_size) all equal offset.
C10_ReportedMargin ==
    Completed =>
        /\ HasLine("margins")
        /\ LeftMargin = Printed("margins")
        /\ TopMargin = Printed("margins")
        /\ RightMargin = Printed("margins")
        /\ BottomMargin = Printed("margins")

====
